---- MODULE Spec2Model ----
(***************************************************************************)
(* Model of src/utility/ec_keys.cpp (libbitcoin): the process-wide         *)
(* init_singleton that starts and stops the secp256k1 engine, and the      *)
(* public key, signature and tweak operations built on it.                 *)
(*                                                                         *)
(* The two engines the file calls (libsecp256k1 and, for point + point,    *)
(* OpenSSL's EC_POINT routines) are not part of the repository.  They are  *)
(* modelled here by what their routines compute, over a curve of the same  *)
(* shape as secp256k1 but small enough to enumerate:                       *)
(*   y^2 = x^3 + 7 over F_43, a group of prime order 31, p % 4 = 3,        *)
(*   no point with x = 0, and the order just below the scalar range 2^5.   *)
(* Byte encodings keep their real sizes (33, 65 and at most 72 bytes).     *)
(***************************************************************************)
EXTENDS Integers, Sequences, FiniteSets, TLC

\* ------------------------------------------------------------------ bounds

\* Number of threads that may call into the operations concurrently.
NumThreads == 2

\* Message hashes are drawn from 0..MaxHash and the top of the range.
MaxHash == 3

\* ------------------------------------------------------- program constants

\* Sizes of an encoded public key; used at ec_keys.cpp lines 64-66.
ec_compressed_size == 33

ec_uncompressed_size == 65

\* Upper bound of an encoded signature: "int out_size = 72".
max_signature_size == 72

\* ---------------------------------------------------------------- the curve

\* The curve both engines compute on (secp256k1, NID 714), scaled down.
Curve == [p |-> 43, b |-> 7, n |-> 31, G |-> <<2, 31>>, bits |-> 5]

P == Curve.p

N == Curve.n

\* A 32-byte scalar or hash holds 0 .. 2^256 - 1; here 0 .. 2^bits - 1.
ScalarMax == 2 ^ Curve.bits - 1

\* The point at infinity (the group's neutral element).
Inf == <<>>

InvP(a) == CHOOSE i \in 1..(P - 1) : (a * i) % P = 1

InvN(a) == CHOOSE i \in 1..(N - 1) : (a * i) % N = 1

OnCurve(x, y) == (y * y - (x * x * x + Curve.b)) % P = 0

\* Group law on affine points.
ECAdd(p1, p2) ==
  IF p1 = Inf THEN p2
  ELSE IF p2 = Inf THEN p1
  ELSE IF p1[1] = p2[1] /\ (p1[2] + p2[2]) % P = 0 THEN Inf
  ELSE LET l == IF p1 = p2
                THEN (3 * p1[1] * p1[1] * InvP((2 * p1[2]) % P)) % P
                ELSE ((p2[2] - p1[2]) * InvP((p2[1] - p1[1]) % P)) % P
           x3 == (l * l - p1[1] - p2[1]) % P
       IN  <<x3, (l * (p1[1] - x3) - p1[2]) % P>>

RECURSIVE ECMulRec(_, _)
ECMulRec(k, pt) == IF k = 0 THEN Inf ELSE ECAdd(ECMulRec(k - 1, pt), pt)

\* k * G for every residue k, computed once.
GTable == [k \in 0..(N - 1) |-> ECMulRec(k, Curve.G)]

ECMulGen(k) == GTable[k % N]

\* Discrete logarithm of a group element (used only to scale a point).
DLog(pt) == CHOOSE k \in 0..(N - 1) : GTable[k] = pt

ECMul(k, pt) == GTable[(k * DLog(pt)) % N]

\* The y coordinate with the given parity for x, or -1 when x is not on
\* the curve.
LiftX(x, odd) ==
  IF \E y \in 0..(P - 1) : OnCurve(x, y) /\ (y % 2 = 1) = odd
  THEN CHOOSE y \in 0..(P - 1) : OnCurve(x, y) /\ (y % 2 = 1) = odd
  ELSE -1

\* ------------------------------------------------------------ byte strings

FieldLen == ec_compressed_size - 1

Zeros(len) == [i \in 1..len |-> 0]

\* A field element as FieldLen big-endian bytes (values here fit 3 bytes).
ToBytes(v) ==
  [i \in 1..FieldLen |->
     IF FieldLen - i >= 3 THEN 0 ELSE (v \div (256 ^ (FieldLen - i))) % 256]

\* Any value with a nonzero byte above the low three is out of every range
\* the model compares against; it reads as 2^24.
FromBytes(bs) ==
  IF \E i \in 1..(Len(bs) - 3) : bs[i] # 0 THEN 2 ^ 24
  ELSE LET at(k) == IF Len(bs) - k >= 1 THEN bs[Len(bs) - k] ELSE 0
       IN  at(2) * 65536 + at(1) * 256 + at(0)

\* Writing `bytes` at the start of buffer `buf` (the buffer keeps its size).
WriteInto(buf, bytes) ==
  [i \in 1..Len(buf) |-> IF i <= Len(bytes) THEN bytes[i] ELSE buf[i]]

\* std::vector::resize: truncate, or extend with zero bytes.
Resize(buf, len) ==
  [i \in 1..len |-> IF i <= Len(buf) THEN buf[i] ELSE 0]

\* ------------------------------------------ libsecp256k1 (external engine)
\* Each routine is modelled by its contract in secp256k1.h as of the version
\* this file is written against; the place named for it is its call site.

\* secp256k1_ecdsa_seckey_verify: 1 iff 0 < key < group order.
secp256k1_ecdsa_seckey_verify(key) == 0 < key /\ key < N

\* Serialisation of a finite point: 02/03 || X, or 04 || X || Y.
secp256k1_ecdsa_pubkey_serialize(pt, compressed) ==
  IF compressed
  THEN <<2 + (pt[2] % 2)>> \o ToBytes(pt[1])
  ELSE <<4>> \o ToBytes(pt[1]) \o ToBytes(pt[2])

\* Parsing of a public key: 33 bytes 02/03, or 65 bytes 04/06/07.
secp256k1_ecdsa_pubkey_parse(pub) ==
  LET bad == [ok |-> FALSE, pt |-> Inf]
  IN
  IF Len(pub) = ec_compressed_size /\ pub[1] \in {2, 3}
  THEN LET x == FromBytes(SubSeq(pub, 2, Len(pub)))
           y == IF x < P THEN LiftX(x, pub[1] = 3) ELSE -1
       IN  IF y = -1 THEN bad ELSE [ok |-> TRUE, pt |-> <<x, y>>]
  ELSE IF Len(pub) = ec_uncompressed_size /\ pub[1] \in {4, 6, 7}
  THEN LET x == FromBytes(SubSeq(pub, 2, 1 + FieldLen))
           y == FromBytes(SubSeq(pub, 2 + FieldLen, Len(pub)))
       IN  IF x >= P \/ y >= P THEN bad
           ELSE IF pub[1] \in {6, 7} /\ (y % 2 = 1) # (pub[1] = 7) THEN bad
           ELSE IF ~OnCurve(x, y) THEN bad
           ELSE [ok |-> TRUE, pt |-> <<x, y>>]
  ELSE bad

\* secp256k1_ecdsa_pubkey_verify: 1 iff the bytes parse as a curve point.
secp256k1_ecdsa_pubkey_verify(pub) == secp256k1_ecdsa_pubkey_parse(pub).ok

\* secp256k1_ecdsa_pubkey_create: 0 when the secret is invalid, else the
\* serialised secret * G and its length.
secp256k1_ecdsa_pubkey_create(secret, compressed) ==
  IF ~secp256k1_ecdsa_seckey_verify(secret)
  THEN [ok |-> FALSE, out |-> <<>>, out_size |-> 0]
  ELSE LET bytes == secp256k1_ecdsa_pubkey_serialize(ECMulGen(secret),
                                                     compressed)
       IN  [ok |-> TRUE, out |-> bytes, out_size |-> Len(bytes)]

\* A DER INTEGER body: minimal big-endian, a leading 0 when the top bit is set.
DerInt(v) ==
  IF v < 128 THEN <<v>>
  ELSE IF v < 256 THEN <<0, v>>
  ELSE <<v \div 256, v % 256>>

\* 30 len 02 lenR R 02 lenS S
secp256k1_ecdsa_sig_serialize(r, s) ==
  LET R == DerInt(r)
      S == DerInt(s)
  IN  <<48, 4 + Len(R) + Len(S), 2, Len(R)>> \o R \o <<2, Len(S)>> \o S

secp256k1_ecdsa_sig_parse(sig) ==
  LET bad  == [ok |-> FALSE, r |-> 0, s |-> 0]
      size == Len(sig)
  IN
  IF size < 6 THEN bad
  ELSE IF sig[1] # 48 THEN bad
  ELSE LET lenr == sig[4] IN
  IF 5 + lenr >= size THEN bad
  ELSE LET lens == sig[lenr + 6] IN
  IF sig[2] # lenr + lens + 4 THEN bad
  ELSE IF lenr + lens + 6 > size THEN bad
  ELSE IF sig[3] # 2 THEN bad
  ELSE IF lenr = 0 THEN bad
  ELSE IF sig[lenr + 5] # 2 THEN bad
  ELSE IF lens = 0 THEN bad
  ELSE [ok |-> TRUE,
        r  |-> FromBytes(SubSeq(sig, 5, 4 + lenr)),
        s  |-> FromBytes(SubSeq(sig, lenr + 7, lenr + 6 + lens))]

\* secp256k1_ecdsa_sign: 0 when the nonce is invalid or r or s comes out 0.
\* The secret is "assumed to be valid": the routine does not promise to
\* check it, so for an invalid secret it either refuses (`strict`) or signs
\* with the number it was given.
secp256k1_ecdsa_sign(hash, secret, nonce, strict) ==
  LET bad == [ok |-> FALSE, sig |-> <<>>, out_size |-> max_signature_size]
  IN
  IF ~(0 < nonce /\ nonce < N) THEN bad
  ELSE IF strict /\ ~secp256k1_ecdsa_seckey_verify(secret) THEN bad
  ELSE LET r == ECMulGen(nonce)[1] % N
           s == (InvN(nonce) * ((hash + r * secret) % N)) % N
       IN  IF r = 0 \/ s = 0 THEN bad
           ELSE LET sig == secp256k1_ecdsa_sig_serialize(r, s)
                IN  [ok |-> TRUE, sig |-> sig, out_size |-> Len(sig)]

\* secp256k1_ecdsa_verify: 1 correct, 0 incorrect, -1 invalid public key,
\* -2 invalid signature.
secp256k1_ecdsa_verify(hash, sig, pub) ==
  LET q == secp256k1_ecdsa_pubkey_parse(pub)
      g == secp256k1_ecdsa_sig_parse(sig)
  IN
  IF ~q.ok THEN -1
  ELSE IF ~g.ok THEN -2
  ELSE IF ~(0 < g.r /\ g.r < N /\ 0 < g.s /\ g.s < N) THEN 0
  ELSE LET sn == InvN(g.s)
           u1 == (sn * (hash % N)) % N
           u2 == (sn * g.r) % N
           pr == ECAdd(ECMulGen(u1), ECMul(u2, q.pt))
       IN  IF pr = Inf THEN 0
           ELSE IF pr[1] % N = g.r THEN 1 ELSE 0

\* secp256k1_ecdsa_pubkey_tweak_add: pub += tweak * G, same encoding form.
secp256k1_ecdsa_pubkey_tweak_add(pub, tweak) ==
  LET q == secp256k1_ecdsa_pubkey_parse(pub)
  IN
  IF tweak >= N \/ ~q.ok THEN [ok |-> FALSE, out |-> pub]
  ELSE LET sum == ECAdd(q.pt, ECMulGen(tweak))
       IN  IF sum = Inf THEN [ok |-> FALSE, out |-> pub]
           ELSE [ok  |-> TRUE,
                 out |-> secp256k1_ecdsa_pubkey_serialize(
                           sum, Len(pub) <= ec_compressed_size)]

\* secp256k1_ecdsa_pubkey_tweak_mul: pub *= tweak, same encoding form.
secp256k1_ecdsa_pubkey_tweak_mul(pub, tweak) ==
  LET q == secp256k1_ecdsa_pubkey_parse(pub)
  IN
  IF tweak = 0 \/ tweak >= N \/ ~q.ok THEN [ok |-> FALSE, out |-> pub]
  ELSE [ok  |-> TRUE,
        out |-> secp256k1_ecdsa_pubkey_serialize(
                  ECMul(tweak, q.pt), Len(pub) <= ec_compressed_size)]

\* secp256k1_ecdsa_privkey_tweak_add: key = (key + tweak) mod n; fails on an
\* out-of-range tweak or a zero result.
secp256k1_ecdsa_privkey_tweak_add(key, tweak) ==
  IF tweak >= N \/ (key + tweak) % N = 0 THEN [ok |-> FALSE, out |-> key]
  ELSE [ok |-> TRUE, out |-> (key + tweak) % N]

\* secp256k1_ecdsa_privkey_tweak_mul: key = (key * tweak) mod n.
secp256k1_ecdsa_privkey_tweak_mul(key, tweak) ==
  IF tweak = 0 \/ tweak >= N THEN [ok |-> FALSE, out |-> key]
  ELSE [ok |-> TRUE, out |-> (key * tweak) % N]

\* ----------------------------------------------- OpenSSL (external engine)

\* EC_POINT_oct2point: X9.62 decoding; a single 0 byte is the point at
\* infinity; forms 02/03 compressed, 04 uncompressed, 06/07 hybrid.
EC_POINT_oct2point(buf) ==
  LET bad == [ok |-> FALSE, pt |-> Inf]
  IN
  IF Len(buf) = 0 THEN bad
  ELSE LET y_bit == buf[1] % 2
           form  == buf[1] - y_bit
       IN
  IF form \notin {0, 2, 4, 6} THEN bad
  ELSE IF form \in {0, 4} /\ y_bit = 1 THEN bad
  ELSE IF form = 0
       THEN IF Len(buf) # 1 THEN bad ELSE [ok |-> TRUE, pt |-> Inf]
  ELSE IF Len(buf) # (IF form = 2 THEN 1 + FieldLen ELSE 1 + 2 * FieldLen)
       THEN bad
  ELSE LET x == FromBytes(SubSeq(buf, 2, 1 + FieldLen)) IN
  IF x >= P THEN bad
  ELSE IF form = 2
       THEN LET y == LiftX(x, y_bit = 1)
            IN  IF y = -1 THEN bad ELSE [ok |-> TRUE, pt |-> <<x, y>>]
  ELSE LET y == FromBytes(SubSeq(buf, 2 + FieldLen, Len(buf))) IN
  IF y >= P THEN bad
  ELSE IF form = 6 /\ y_bit # y % 2 THEN bad
  ELSE IF ~OnCurve(x, y) THEN bad
  ELSE [ok |-> TRUE, pt |-> <<x, y>>]

\* EC_POINT_add: succeeds (also when the sum is the point at infinity)
\* unless the library fails internally (`err`: an allocation failure).
EC_POINT_add(pa, pb, err) ==
  IF err THEN [ok |-> FALSE, pt |-> pa] ELSE [ok |-> TRUE, pt |-> ECAdd(pa, pb)]

\* EC_POINT_point2oct(.., POINT_CONVERSION_COMPRESSED, NULL, 0, ..): the
\* length the encoding needs; 0 on an internal failure.
EC_POINT_point2oct_size(pt, err) ==
  IF err THEN 0 ELSE IF pt = Inf THEN 1 ELSE 1 + FieldLen

\* EC_POINT_point2oct into a buffer of `len` bytes: the bytes written (empty
\* on failure: the buffer is too small, or an internal failure).
EC_POINT_point2oct(pt, len, err) ==
  IF err THEN <<>>
  ELSE IF pt = Inf THEN (IF len < 1 THEN <<>> ELSE <<0>>)
  ELSE IF len < 1 + FieldLen THEN <<>>
  ELSE <<2 + (pt[2] % 2)>> \o ToBytes(pt[1])

\* ------------------------------------------------- ec_keys.cpp: operations
\* Each operation below is the part of the function after its init.init()
\* call; the init.init() calls themselves are the steps InitCheck, InitStart
\* and InitSet of the state machine.

\* InitCalls with the init.init() call left out of operator*=(ec_secret&,
\* const ec_secret&).
InitCalls_skips_secret_mul(op) ==
  CASE op \in {"point_add_point", "secret_mul_secret"} -> 0
    [] op = "sign" -> 2
    [] OTHER -> 1

\* How many times an operation runs init.init() before the work modelled by
\* its operator: sign calls it itself and again through
\* verify_private_key(nonce); operator+=(ec_point&, const ec_point&) never.
InitCalls(op) ==
  CASE op = "point_add_point" -> 0
    [] op = "sign"            -> 2
    [] OTHER                  -> 1

\* secret_to_public_key with the "if (compressed)" size choice left out.
secret_to_public_key_fixed_size(secret, compressed) ==
  LET size    == ec_compressed_size
      out     == Zeros(size)
      created == secp256k1_ecdsa_pubkey_create(secret, compressed)
  IN  IF ~created.ok
      THEN [val |-> <<>>, assert_ok |-> TRUE]
      ELSE [val       |-> WriteInto(out, created.out),
            assert_ok |-> size = created.out_size]

secret_to_public_key(secret, compressed) ==
  LET size    == IF compressed THEN ec_compressed_size ELSE ec_uncompressed_size
      out     == Zeros(size)
      created == secp256k1_ecdsa_pubkey_create(secret, compressed)
  IN  IF ~created.ok
      THEN [val |-> <<>>, assert_ok |-> TRUE]
      ELSE [val       |-> WriteInto(out, created.out),
            assert_ok |-> size = created.out_size]

verify_public_key(public_key) ==
  [val |-> secp256k1_ecdsa_pubkey_verify(public_key)]

verify_private_key(private_key) ==
  [val |-> secp256k1_ecdsa_seckey_verify(private_key)]

\* sign with the verify_private_key(nonce) check left out.
sign_without_nonce_check(secret, hash, nonce, strict) ==
  LET signature == Zeros(max_signature_size)
      signed    == secp256k1_ecdsa_sign(hash, secret, nonce, strict)
  IN  IF ~signed.ok
      THEN [val |-> <<>>, invoked |-> TRUE, out_size |-> signed.out_size]
      ELSE [val      |-> Resize(WriteInto(signature, signed.sig),
                                signed.out_size),
            invoked  |-> TRUE,
            out_size |-> signed.out_size]

\* sign with "signature.resize(out_size)" left out.
sign_without_resize(secret, hash, nonce, strict) ==
  LET signature == Zeros(max_signature_size)
  IN  IF ~secp256k1_ecdsa_seckey_verify(nonce)
      THEN [val |-> <<>>, invoked |-> FALSE, out_size |-> max_signature_size]
      ELSE LET signed == secp256k1_ecdsa_sign(hash, secret, nonce, strict)
           IN  IF ~signed.ok
               THEN [val      |-> <<>>,
                     invoked  |-> TRUE,
                     out_size |-> signed.out_size]
               ELSE [val      |-> WriteInto(signature, signed.sig),
                     invoked  |-> TRUE,
                     out_size |-> signed.out_size]

\* sign handing the nonce and the secret to the engine in each other's place.
sign_swaps_secret_and_nonce(secret, hash, nonce, strict) ==
  LET signature == Zeros(max_signature_size)
  IN  IF ~secp256k1_ecdsa_seckey_verify(nonce)
      THEN [val |-> <<>>, invoked |-> FALSE, out_size |-> max_signature_size]
      ELSE LET signed == secp256k1_ecdsa_sign(hash, nonce, secret, strict)
           IN  IF ~signed.ok
               THEN [val      |-> <<>>,
                     invoked  |-> TRUE,
                     out_size |-> signed.out_size]
               ELSE [val      |-> Resize(WriteInto(signature, signed.sig),
                                         signed.out_size),
                     invoked  |-> TRUE,
                     out_size |-> signed.out_size]

\* `invoked`: whether secp256k1_ecdsa_sign was called; `out_size`: the
\* length it reported.
sign(secret, hash, nonce, strict) ==
  LET signature == Zeros(max_signature_size)
  IN  IF ~verify_private_key(nonce).val
      THEN [val |-> <<>>, invoked |-> FALSE, out_size |-> max_signature_size]
      ELSE LET signed == secp256k1_ecdsa_sign(hash, secret, nonce, strict)
           IN  IF ~signed.ok
               THEN [val      |-> <<>>,
                     invoked  |-> TRUE,
                     out_size |-> signed.out_size]
               ELSE [val      |-> Resize(WriteInto(signature, signed.sig),
                                         signed.out_size),
                     invoked  |-> TRUE,
                     out_size |-> signed.out_size]

verify_signature(public_key, hash, signature) ==
  [val |-> 1 = secp256k1_ecdsa_verify(hash, signature, public_key)]

\* The handles operator+=(ec_point&, const ec_point&) acquires, in order.
Acquired == <<"group", "ctx", "point_a", "point_b">>

\* The `fail:` label: the four frees, then return success.
Cleanup(success, a) ==
  [val |-> success, out |-> a, freed |-> <<"point_b", "point_a", "ctx", "group">>]

\* point_add_point with "return false" in place of "goto fail" when the
\* right operand does not decode.
point_add_point_early_return(a, b, err) ==
  LET point_a == EC_POINT_oct2point(a)
      point_b == EC_POINT_oct2point(b)
  IN
  IF ~point_a.ok THEN Cleanup(FALSE, a)
  ELSE IF ~point_b.ok THEN [val |-> FALSE, out |-> a, freed |-> <<>>]
  ELSE LET sum == EC_POINT_add(point_a.pt, point_b.pt, err = "add") IN
  IF ~sum.ok THEN Cleanup(FALSE, a)
  ELSE LET data_size == EC_POINT_point2oct_size(sum.pt, err = "size")
           resized   == Resize(a, data_size)
           written   == EC_POINT_point2oct(sum.pt, Len(resized), err = "encode")
       IN  IF Len(written) = 0 THEN Cleanup(FALSE, resized)
           ELSE Cleanup(TRUE, WriteInto(resized, written))

\* `err` names the library call that fails internally, if any.
point_add_point(a, b, err) ==
  LET point_a == EC_POINT_oct2point(a)
      point_b == EC_POINT_oct2point(b)
  IN
  IF ~point_a.ok THEN Cleanup(FALSE, a)
  ELSE IF ~point_b.ok THEN Cleanup(FALSE, a)
  ELSE LET sum == EC_POINT_add(point_a.pt, point_b.pt, err = "add") IN
  IF ~sum.ok THEN Cleanup(FALSE, a)
  ELSE LET data_size == EC_POINT_point2oct_size(sum.pt, err = "size")
           resized   == Resize(a, data_size)
           written   == EC_POINT_point2oct(sum.pt, Len(resized), err = "encode")
       IN  IF Len(written) = 0 THEN Cleanup(FALSE, resized)
           ELSE Cleanup(TRUE, WriteInto(resized, written))

\* point_add_secret calling the tweak_mul routine of the next operator.
point_add_secret_multiplies(a, b) ==
  LET r == secp256k1_ecdsa_pubkey_tweak_mul(a, b)
  IN  [val |-> r.ok, out |-> r.out]

point_add_secret(a, b) ==
  LET r == secp256k1_ecdsa_pubkey_tweak_add(a, b)
  IN  [val |-> r.ok, out |-> r.out]

point_mul_secret(a, b) ==
  LET r == secp256k1_ecdsa_pubkey_tweak_mul(a, b)
  IN  [val |-> r.ok, out |-> r.out]

secret_add_secret(a, b) ==
  LET r == secp256k1_ecdsa_privkey_tweak_add(a, b)
  IN  [val |-> r.ok, out |-> r.out]

secret_mul_secret(a, b) ==
  LET r == secp256k1_ecdsa_privkey_tweak_mul(a, b)
  IN  [val |-> r.ok, out |-> r.out]

\* ------------------------------------------------------------------ inputs

Scalars == 0..ScalarMax

Hashes == (0..MaxHash) \cup {ScalarMax}

FinitePoints == {GTable[k] : k \in 1..(N - 1)}

\* Every finite point in both standard encodings.
ValidPoints ==
  {secp256k1_ecdsa_pubkey_serialize(pt, c) : pt \in FinitePoints, c \in BOOLEAN}

\* Hybrid encodings (06/07 || X || Y) of one point: one right, one with the
\* wrong parity tag.
HybridPoints ==
  LET pt == GTable[3]
  IN  {<<6 + (pt[2] % 2)>> \o ToBytes(pt[1]) \o ToBytes(pt[2]),
       <<7 - (pt[2] % 2)>> \o ToBytes(pt[1]) \o ToBytes(pt[2])}

\* Byte strings that are no encoding of a finite point: empty, the one-byte
\* encoding of infinity, the all-zero buffer, an x that is not on the curve,
\* an x beyond the field, a short buffer, a point off the curve, a bad tag.
MalformedPoints ==
  {<<>>, <<0>>, Zeros(ec_compressed_size),
   <<2>> \o ToBytes(1),
   <<3>> \o ToBytes(P + 7),
   SubSeq(<<2>> \o ToBytes(2), 1, ec_compressed_size - 1),
   <<4>> \o ToBytes(2) \o ToBytes(13),
   <<5>> \o ToBytes(2)}

PointInputs == ValidPoints \cup HybridPoints \cup MalformedPoints

\* Signatures offered to verify_signature: some produced by sign, and some
\* malformed ones (empty, all zero, one byte changed, truncated).
SigInputs ==
  LET good == {sign(d, h, k, TRUE).val : d \in {1, 5}, h \in {0, 2}, k \in {1, 3}}
                \ {<<>>}
  IN  good
      \cup {<<>>, Zeros(max_signature_size)}
      \cup {[g EXCEPT ![Len(g)] = (g[Len(g)] + 1) % 256] : g \in good}
      \cup {SubSeq(g, 1, Len(g) - 1) : g \in good}

\* The internal library failures operator+=(ec_point&, const ec_point&) can
\* meet, tried on a few operand pairs.
PointAddErrors == {"add", "size", "encode"}

\* Every call a single thread is given.
AllCalls ==
       {[op |-> "secret_to_public_key", args |-> <<s, c>>] :
          s \in Scalars, c \in BOOLEAN}
  \cup {[op |-> "verify_public_key", args |-> <<p>>] : p \in PointInputs}
  \cup {[op |-> "verify_private_key", args |-> <<s>>] : s \in Scalars}
  \cup {[op |-> "sign", args |-> <<s, h, k, strict>>] :
          s \in Scalars, h \in Hashes, k \in Scalars, strict \in {TRUE}}
  \cup {[op |-> "sign", args |-> <<s, h, k, FALSE>>] :
          s \in {x \in Scalars : ~secp256k1_ecdsa_seckey_verify(x)},
          h \in Hashes, k \in Scalars}
  \cup {[op |-> "verify_signature", args |-> <<p, h, g>>] :
          p \in PointInputs, h \in Hashes, g \in SigInputs}
  \cup {[op |-> "point_add_point", args |-> <<a, b, "none">>] :
          a \in PointInputs, b \in PointInputs}
  \cup {[op |-> "point_add_point", args |-> <<a, b, e>>] :
          a \in {secp256k1_ecdsa_pubkey_serialize(GTable[k], k % 2 = 0) :
                   k \in 1..3},
          b \in {secp256k1_ecdsa_pubkey_serialize(GTable[k], TRUE) :
                   k \in {1, N - 1}},
          e \in PointAddErrors}
  \cup {[op |-> "point_add_secret", args |-> <<a, b>>] :
          a \in PointInputs, b \in Scalars}
  \cup {[op |-> "point_mul_secret", args |-> <<a, b>>] :
          a \in PointInputs, b \in Scalars}
  \cup {[op |-> "secret_add_secret", args |-> <<a, b>>] :
          a \in Scalars, b \in Scalars}
  \cup {[op |-> "secret_mul_secret", args |-> <<a, b>>] :
          a \in Scalars, b \in Scalars}

\* One call of each operation, for the threads that run concurrently.
FewCalls ==
  LET pub == secp256k1_ecdsa_pubkey_serialize(GTable[2], TRUE)
  IN  {[op |-> "secret_to_public_key", args |-> <<2, TRUE>>],
       [op |-> "verify_public_key", args |-> <<pub>>],
       [op |-> "verify_private_key", args |-> <<2>>],
       [op |-> "sign", args |-> <<2, 1, 3, TRUE>>],
       [op |-> "verify_signature", args |-> <<pub, 1, sign(2, 1, 3, TRUE).val>>],
       [op |-> "point_add_point", args |-> <<pub, pub, "none">>],
       [op |-> "point_add_secret", args |-> <<pub, 3>>],
       [op |-> "point_mul_secret", args |-> <<pub, 3>>],
       [op |-> "secret_add_secret", args |-> <<2, 3>>],
       [op |-> "secret_mul_secret", args |-> <<2, 3>>]}

\* ------------------------------------------------------------------- state

VARIABLES
  init_done_,   \* init_singleton::init_done_
  engine,       \* libsecp256k1: "unstarted", "started" or "stopped"
  engineLog,    \* the secp256k1_start / secp256k1_stop calls made, in order
  alive,        \* the static object `init` has not been destroyed
  pc,           \* per thread: where it is, and the init.init() calls left
  call,         \* per thread: the operation it is in and its arguments
  ret           \* per thread: what the operation returned

vars == <<init_done_, engine, engineLog, alive, pc, call, ret>>

Threads == 1..NumThreads

NoCall == [op |-> "none", args |-> <<>>]

NoRet == [val |-> <<>>]

At(t, where) == pc[t].at = where

\* init_singleton::init_singleton(); every thread outside the operations.
Init ==
  /\ init_done_ = FALSE
  /\ engine = "unstarted"
  /\ engineLog = <<>>
  /\ alive = TRUE
  /\ pc = [t \in Threads |-> [at |-> "idle", inits |-> 0]]
  /\ call = [t \in Threads |-> NoCall]
  /\ ret = [t \in Threads |-> NoRet]

\* Where a thread goes when an init.init() call returns.
AfterInit(p) ==
  IF p.inits > 1
  THEN [at |-> "check", inits |-> p.inits - 1]
  ELSE [at |-> "body", inits |-> 0]

\* A thread enters one of the public operations.
Call(t, calls) ==
  /\ alive
  /\ At(t, "idle")
  /\ \E c \in calls :
       /\ call' = [call EXCEPT ![t] = c]
       /\ pc' = [pc EXCEPT ![t] =
                   IF InitCalls(c.op) = 0
                   THEN [at |-> "body", inits |-> 0]
                   ELSE [at |-> "check", inits |-> InitCalls(c.op)]]
  /\ UNCHANGED <<init_done_, engine, engineLog, alive, ret>>

\* InitCheck with the "if (init_done_) return;" guard left out.
InitCheck_always_starts(t) ==
  /\ At(t, "check")
  /\ pc' = [pc EXCEPT ![t] = [at |-> "start", inits |-> pc[t].inits]]
  /\ UNCHANGED <<init_done_, engine, engineLog, alive, call, ret>>

\* init(): "if (init_done_) return;"
InitCheck(t) ==
  /\ At(t, "check")
  /\ pc' = [pc EXCEPT ![t] =
              IF init_done_ THEN AfterInit(pc[t])
              ELSE [at |-> "start", inits |-> pc[t].inits]]
  /\ UNCHANGED <<init_done_, engine, engineLog, alive, call, ret>>

\* init(): "secp256k1_start();"
InitStart(t) ==
  /\ At(t, "start")
  /\ engine' = "started"
  /\ engineLog' = Append(engineLog, "start")
  /\ pc' = [pc EXCEPT ![t] = [at |-> "set", inits |-> pc[t].inits]]
  /\ UNCHANGED <<init_done_, alive, call, ret>>

\* init(): "init_done_ = true;"
InitSet(t) ==
  /\ At(t, "set")
  /\ init_done_' = TRUE
  /\ pc' = [pc EXCEPT ![t] = AfterInit(pc[t])]
  /\ UNCHANGED <<engine, engineLog, alive, call, ret>>

\* The operation's work is done and its result is with the caller.
Finish(t, op, result) ==
  /\ At(t, "body")
  /\ call[t].op = op
  /\ ret' = [ret EXCEPT ![t] = result]
  /\ pc' = [pc EXCEPT ![t] = [at |-> "done", inits |-> 0]]
  /\ UNCHANGED <<init_done_, engine, engineLog, alive, call>>

Arg(t, i) == call[t].args[i]

Run_secret_to_public_key(t) ==
  Finish(t, "secret_to_public_key", secret_to_public_key(Arg(t, 1), Arg(t, 2)))

Run_verify_public_key(t) ==
  Finish(t, "verify_public_key", verify_public_key(Arg(t, 1)))

Run_verify_private_key(t) ==
  Finish(t, "verify_private_key", verify_private_key(Arg(t, 1)))

Run_sign(t) ==
  Finish(t, "sign", sign(Arg(t, 1), Arg(t, 2), Arg(t, 3), Arg(t, 4)))

Run_verify_signature(t) ==
  Finish(t, "verify_signature",
         verify_signature(Arg(t, 1), Arg(t, 2), Arg(t, 3)))

Run_point_add_point(t) ==
  Finish(t, "point_add_point", point_add_point(Arg(t, 1), Arg(t, 2), Arg(t, 3)))

Run_point_add_secret(t) ==
  Finish(t, "point_add_secret", point_add_secret(Arg(t, 1), Arg(t, 2)))

Run_point_mul_secret(t) ==
  Finish(t, "point_mul_secret", point_mul_secret(Arg(t, 1), Arg(t, 2)))

Run_secret_add_secret(t) ==
  Finish(t, "secret_add_secret", secret_add_secret(Arg(t, 1), Arg(t, 2)))

Run_secret_mul_secret(t) ==
  Finish(t, "secret_mul_secret", secret_mul_secret(Arg(t, 1), Arg(t, 2)))

\* The caller has taken the result and is between operations again.
Return(t) ==
  /\ At(t, "done")
  /\ pc' = [pc EXCEPT ![t] = [at |-> "idle", inits |-> 0]]
  /\ call' = [call EXCEPT ![t] = NoCall]
  /\ ret' = [ret EXCEPT ![t] = NoRet]
  /\ UNCHANGED <<init_done_, engine, engineLog, alive>>

\* ~init_singleton() at process exit: "if (init_done_) secp256k1_stop();"
\* Static destruction follows the end of every thread's last operation.
Destroy ==
  /\ alive
  /\ \A t \in Threads : At(t, "idle")
  /\ alive' = FALSE
  /\ engine' = IF init_done_ THEN "stopped" ELSE engine
  /\ engineLog' = IF init_done_ THEN Append(engineLog, "stop") ELSE engineLog
  /\ UNCHANGED <<init_done_, pc, call, ret>>

Step(t, calls) ==
  \/ Call(t, calls)
  \/ InitCheck(t)
  \/ InitStart(t)
  \/ InitSet(t)
  \/ Run_secret_to_public_key(t)
  \/ Run_verify_public_key(t)
  \/ Run_verify_private_key(t)
  \/ Run_sign(t)
  \/ Run_verify_signature(t)
  \/ Run_point_add_point(t)
  \/ Run_point_add_secret(t)
  \/ Run_point_mul_secret(t)
  \/ Run_secret_add_secret(t)
  \/ Run_secret_mul_secret(t)
  \/ Return(t)

\* Threads calling into the operations concurrently.
Next == (\E t \in Threads : Step(t, FewCalls)) \/ Destroy

Spec == Init /\ [][Next]_vars

\* One thread, given every call.
NextSeq == Step(1, AllCalls) \/ Destroy

SpecSeq == Init /\ [][NextSeq]_vars

\* ------------------------------------------------------------------ claims

Done(t, op) == At(t, "done") /\ call[t].op = op

ValidScalar(k) == 0 < k /\ k < N

IsStart(e) == e = "start"

StartCalls == Len(SelectSeq(engineLog, IsStart))

Occurrences(seq, x) == Cardinality({i \in 1..Len(seq) : seq[i] = x})

\* C1: however the first calls of several threads interleave, init() runs
\* secp256k1_start at most once in total.
C1_StartExactlyOnce == StartCalls <= 1

\* C2 as stated: after any public operation returns, the curve context is
\* in the started state.
C2_EveryOperationStartsContext ==
  \A t \in Threads :
    At(t, "done") => init_done_ /\ engine = "started"

\* C2: every public operation other than point += point has finished its
\* init.init() calls before its engine work begins, so the context is
\* started while it works and when it returns; point += point makes no
\* init.init() call.
C2_EngineOperationsStartContext ==
  \A t \in Threads :
    /\ (pc[t].at \in {"body", "done"} /\ call[t].op # "point_add_point")
         => init_done_ /\ engine = "started"
    /\ call[t].op = "point_add_point" => pc[t].at \in {"body", "done"}

C2_Witness ==
  \E t \in Threads : Done(t, "secret_mul_secret") /\ engine = "started"

\* C3: in a single thread, secp256k1_start is called at most once,
\* secp256k1_stop is called by the destructor exactly once if start was
\* called and never if it was not, and no start follows the stop.
C3_StartOnceStopOnce ==
  /\ engineLog \in {<<>>, <<"start">>, <<"start", "stop">>}
  /\ alive => engineLog \in {<<>>, <<"start">>}
  /\ ~alive => engineLog \in {<<>>, <<"start", "stop">>}
  /\ init_done_ => engineLog # <<>>

C3_Witness == ~alive /\ engineLog = <<"start", "stop">>

\* C4: sign with a nonce that is 0 or not below the group order returns the
\* empty signature without invoking secp256k1_ecdsa_sign.
C4_InvalidNonceFails ==
  \A t \in Threads :
    (Done(t, "sign") /\ ~ValidScalar(Arg(t, 3)))
      => ret[t].val = <<>> /\ ~ret[t].invoked

C4_Witness ==
  \E t \in Threads :
    Done(t, "sign") /\ ValidScalar(Arg(t, 1)) /\ Arg(t, 3) = N
      /\ ret[t].val = <<>>

\* C5 as stated: sign with an invalid secret and a valid nonce returns the
\* empty signature, and sign returns the empty signature or one of exactly
\* the engine-reported length.
C5_InvalidSecretFails ==
  \A t \in Threads :
    Done(t, "sign") =>
      /\ (~ValidScalar(Arg(t, 1)) /\ ValidScalar(Arg(t, 3)))
           => ret[t].val = <<>>
      /\ ret[t].val = <<>> \/ Len(ret[t].val) = ret[t].out_size

\* C5: sign returns the empty signature whenever the nonce is invalid or
\* the engine's signing routine reports failure, and otherwise a signature
\* of exactly the length the engine reported, at most 72 bytes; the secret
\* is checked by nobody but the engine.
C5_EmptyOrTrimmed ==
  \A t \in Threads :
    Done(t, "sign") =>
      LET signed == secp256k1_ecdsa_sign(Arg(t, 2), Arg(t, 1), Arg(t, 3),
                                         Arg(t, 4))
      IN  IF ~ValidScalar(Arg(t, 3)) \/ ~signed.ok
          THEN ret[t].val = <<>>
          ELSE /\ ret[t].val = signed.sig
               /\ Len(ret[t].val) = ret[t].out_size
               /\ ret[t].out_size = signed.out_size
               /\ ret[t].out_size <= max_signature_size

C5_Witness ==
  \E t \in Threads :
    Done(t, "sign") /\ ret[t].val # <<>>
      /\ Len(ret[t].val) < max_signature_size

\* C6: secret_to_public_key returns the empty point exactly when the engine
\* rejects the secret, and otherwise a point of 33 bytes if compressed and
\* 65 bytes if not; for a valid secret the result is not empty, the size
\* assertion holds and verify_public_key accepts the result.
C6_PublicKeySize ==
  \A t \in Threads :
    Done(t, "secret_to_public_key") =>
      LET secret     == Arg(t, 1)
          compressed == Arg(t, 2)
          point      == ret[t].val
      IN  /\ ret[t].assert_ok
          /\ point = <<>>
               <=> ~secp256k1_ecdsa_pubkey_create(secret, compressed).ok
          /\ point # <<>> =>
               Len(point) = IF compressed THEN 33 ELSE 65
          /\ ValidScalar(secret) =>
               point # <<>> /\ verify_public_key(point).val

C6_Witness ==
  \E t \in Threads :
    Done(t, "secret_to_public_key") /\ ValidScalar(Arg(t, 1))
      /\ ~Arg(t, 2) /\ Len(ret[t].val) = 65

\* C7: point += point returns false when either operand does not decode,
\* and when the sum of the two points is the point at infinity; it returns
\* true only with the left operand holding the compressed encoding of a
\* finite sum.
C7_PointAddFailsAtInfinity ==
  \A t \in Threads :
    Done(t, "point_add_point") =>
      LET pa  == EC_POINT_oct2point(Arg(t, 1))
          pb  == EC_POINT_oct2point(Arg(t, 2))
          sum == ECAdd(pa.pt, pb.pt)
      IN  /\ (~pa.ok \/ ~pb.ok) => ~ret[t].val
          /\ (pa.ok /\ pb.ok /\ sum = Inf) => ~ret[t].val
          /\ ret[t].val =>
               /\ pa.ok /\ pb.ok /\ sum # Inf
               /\ ret[t].out = secp256k1_ecdsa_pubkey_serialize(sum, TRUE)

\* C8 as stated: for a valid secret, any hash and a valid nonce, the
\* signature sign returns verifies against the secret's public key.
C8_RoundTrip ==
  \A t \in Threads :
    (Done(t, "sign") /\ ValidScalar(Arg(t, 1)) /\ ValidScalar(Arg(t, 3)))
      => \A c \in BOOLEAN :
           verify_signature(secret_to_public_key(Arg(t, 1), c).val,
                            Arg(t, 2), ret[t].val).val

\* C8: for a valid secret, any hash and a valid nonce, sign returns the
\* empty signature exactly when the engine rejects the triple (the s it
\* computes is 0: hash + r * secret is a multiple of the group order), and
\* every signature it does return verifies against the secret's public key
\* in either encoding.
C8_RoundTripWhenSigned ==
  \A t \in Threads :
    (Done(t, "sign") /\ ValidScalar(Arg(t, 1)) /\ ValidScalar(Arg(t, 3)))
      => LET r == ECMulGen(Arg(t, 3))[1] % N
         IN  IF r = 0 \/ (Arg(t, 2) + r * Arg(t, 1)) % N = 0
             THEN ret[t].val = <<>>
             ELSE /\ ret[t].val # <<>>
                  /\ \A c \in BOOLEAN :
                       verify_signature(
                         secret_to_public_key(Arg(t, 1), c).val,
                         Arg(t, 2), ret[t].val).val

C8_Witness ==
  \E t \in Threads :
    /\ Done(t, "sign") /\ ValidScalar(Arg(t, 1)) /\ ValidScalar(Arg(t, 3))
    /\ ret[t].val # <<>>
    /\ verify_signature(secret_to_public_key(Arg(t, 1), FALSE).val,
                        Arg(t, 2), ret[t].val).val

\* C9: for valid secrets a and b, secret += secret fails exactly when a + b
\* is a multiple of the group order; when it succeeds, point += secret on
\* the public key of a succeeds too and gives the public key of the summed
\* secret, in the encoding form and size of the point it was given.
C9_TweakAdd ==
  \A t \in Threads :
    /\ (Done(t, "secret_add_secret") /\ ValidScalar(Arg(t, 1))
          /\ ValidScalar(Arg(t, 2)))
         => /\ ret[t].val <=> (Arg(t, 1) + Arg(t, 2)) % N # 0
            /\ \A c \in BOOLEAN :
                 LET point == secret_to_public_key(Arg(t, 1), c).val
                     moved == point_add_secret(point, Arg(t, 2))
                 IN  /\ moved.val <=> ret[t].val
                     /\ ret[t].val =>
                          /\ moved.out = secret_to_public_key(ret[t].out, c).val
                          /\ Len(moved.out) = Len(point)
    /\ (Done(t, "point_add_secret") /\ Arg(t, 1) \in ValidPoints
          /\ ValidScalar(Arg(t, 2)) /\ ret[t].val)
         => /\ Len(ret[t].out) = Len(Arg(t, 1))
            /\ (ret[t].out[1] = 4) <=> (Arg(t, 1)[1] = 4)
            /\ secp256k1_ecdsa_pubkey_parse(ret[t].out).pt
                 = ECAdd(secp256k1_ecdsa_pubkey_parse(Arg(t, 1)).pt,
                         ECMulGen(Arg(t, 2)))

C9_Witness ==
  \E t \in Threads :
    /\ Done(t, "point_add_secret") /\ Arg(t, 1) \in ValidPoints
    /\ Len(Arg(t, 1)) = 65 /\ ValidScalar(Arg(t, 2)) /\ ret[t].val
    /\ ret[t].out # Arg(t, 1)

\* C10: whichever way point += point leaves (success, either operand not
\* decoding, the addition or the encoding failing), each of the four
\* handles it acquired is released exactly once, and when an operand does
\* not decode the left operand is returned as it was given.
C10_HandlesReleased ==
  \A t \in Threads :
    Done(t, "point_add_point") =>
      /\ Len(ret[t].freed) = Len(Acquired)
      /\ \A i \in 1..Len(Acquired) : Occurrences(ret[t].freed, Acquired[i]) = 1
      /\ (~EC_POINT_oct2point(Arg(t, 1)).ok \/ ~EC_POINT_oct2point(Arg(t, 2)).ok)
           => ~ret[t].val /\ ret[t].out = Arg(t, 1)

C10_Witness ==
  \E t \in Threads :
    /\ Done(t, "point_add_point")
    /\ EC_POINT_oct2point(Arg(t, 1)).ok
    /\ ~EC_POINT_oct2point(Arg(t, 2)).ok
    /\ ~ret[t].val /\ ret[t].out = Arg(t, 1)

====
